---- MODULE Spec2Model ----
(***************************************************************************)
(* A model of the cache server in src/code-orig/main.rs: the wire-protocol *)
(* codec (inline and multi-bulk frames), the command dispatcher over the   *)
(* shared store, and the acceptor / worker reactors that move bytes        *)
(* between sockets and the per-connection buffers.                         *)
(*                                                                         *)
(* Byte strings are sequences of integers 0..255.  Cursors are the Rust    *)
(* zero-based indices; At and Slice translate them to TLA+ sequences.      *)
(* A Rust panic (index out of bounds) is the field `panic` of a result.    *)
(***************************************************************************)
EXTENDS Integers, Sequences, FiniteSets, TLC

\* ------------------------------------------------------------------ bytes
LF == 10
CR == 13
SP == 32
DQUOTE == 34
DOLLAR == 36
SQUOTE == 39
STAR == 42
PLUS == 43
BACKSLASH == 92
TAB == 9
BACKSPACE == 8
BELL == 7
CH_n == 110
CH_r == 114
CH_t == 116
CH_b == 98
CH_a == 97
CH_x == 120
CH_0 == 48
CH_9 == 57
CH_f == 102
CH_z == 122
CH_A == 65
CH_F == 70
CH_Z == 90
MINUS == 45

\* packet[i]
At(p, i) == p[i + 1]

\* packet[a..b]
Slice(p, a, b) == SubSeq(p, a + 1, b)

\* A split one byte late: the tail [n + 1, len)
split_off_late(v, n) == SubSeq(v, n + 2, Len(v))

\* v.split_off(n): the tail [n, len)
split_off(v, n) == SubSeq(v, n + 1, Len(v))

\* ------------------------------------------------------- string literals
ERR_UNBALANCED == <<69,82,82,32,80,114,111,116,111,99,111,108,32,101,114,114,111,114,58,32,117,110,98,97,108,97,110,99,101,100,32,113,117,111,116,101,115,32,105,110,32,114,101,113,117,101,115,116>>   \* "ERR Protocol error: unbalanced quotes in request"
ERR_PROTO_PREFIX == <<69,82,82,32,80,114,111,116,111,99,111,108,32,101,114,114,111,114,58,32>>   \* "ERR Protocol error: "
MSG_EXPECTED == <<101,120,112,101,99,116,101,100,32,39,36,39,44,32,103,111,116,32,39>>   \* "expected '$', got '"
MSG_BULKLEN == <<105,110,118,97,108,105,100,32,98,117,108,107,32,108,101,110,103,116,104>>   \* "invalid bulk length"
MSG_MBLEN == <<105,110,118,97,108,105,100,32,109,117,108,116,105,98,117,108,107,32,108,101,110,103,116,104>>   \* "invalid multibulk length"
PONG == <<43,80,79,78,71,13,10>>   \* "+PONG\r\n"
OK == <<43,79,75,13,10>>   \* "+OK\r\n"
INT1 == <<58,49,13,10>>   \* ":1\r\n"
INT0 == <<58,48,13,10>>   \* ":0\r\n"
NULLBULK == <<36,45,49,13,10>>   \* "$-1\r\n"
MSG_WRONGARGS_PRE == <<45,69,82,82,32,119,114,111,110,103,32,110,117,109,98,101,114,32,111,102,32,97,114,103,117,109,101,110,116,115,32,102,111,114,32,39>>   \* "-ERR wrong number of arguments for '"
MSG_WRONGARGS_POST == <<39,32,99,111,109,109,97,110,100,13,10>>   \* "' command\r\n"
MSG_UNKNOWN_PRE == <<45,69,82,82,32,117,110,107,110,111,119,110,32,99,111,109,109,97,110,100,32,39>>   \* "-ERR unknown command '"
MSG_UNKNOWN_POST == <<39,13,10>>   \* "'\r\n"
PING == <<80,73,78,71>>   \* "PING"
SET == <<83,69,84>>   \* "SET"
FLUSHDB == <<70,76,85,83,72,68,66>>   \* "FLUSHDB"
DEL == <<68,69,76>>   \* "DEL"
GET == <<71,69,84>>   \* "GET"
KEYS == <<75,69,89,83>>   \* "KEYS"
QUIT == <<81,85,73,84>>   \* "QUIT"
U64MAX == <<49,56,52,52,54,55,52,52,48,55,51,55,48,57,53,53,49,54,49,53>>   \* usize::MAX, "18446744073709551615"
REPLACEMENT == <<239,191,189>>   \* U+FFFD in UTF-8

\* ------------------------------------------------- library conversions
\* usize::to_string
RECURSIVE to_string(_)
to_string(n) ==
  IF n < 10 THEN <<CH_0 + n>> ELSE Append(to_string(n \div 10), CH_0 + (n % 10))

\* `b as char` formatted: the UTF-8 encoding of U+0000..U+00FF
char_utf8(b) ==
  IF b < 128 THEN <<b>> ELSE <<192 + (b \div 64), 128 + (b % 64)>>

IsCont(b) == b >= 128 /\ b <= 191

\* The length of the valid UTF-8 sequence starting at s[k], or 0 when the
\* bytes there are invalid together with the count the decoder gives up on.
Utf8Step(s, k) ==
  LET n == Len(s)
      b == s[k]
      has(j) == k + j <= n
      c(j) == s[k + j]
      second3 == \/ (b = 224 /\ c(1) >= 160 /\ c(1) <= 191)
                 \/ (b >= 225 /\ b <= 236 /\ IsCont(c(1)))
                 \/ (b = 237 /\ c(1) >= 128 /\ c(1) <= 159)
                 \/ (b >= 238 /\ b <= 239 /\ IsCont(c(1)))
      second4 == \/ (b = 240 /\ c(1) >= 144 /\ c(1) <= 191)
                 \/ (b >= 241 /\ b <= 243 /\ IsCont(c(1)))
                 \/ (b = 244 /\ c(1) >= 128 /\ c(1) <= 143)
  IN  IF b < 128 THEN [valid |-> TRUE, len |-> 1]
      ELSE IF b >= 194 /\ b <= 223 THEN
             IF has(1) /\ IsCont(c(1)) THEN [valid |-> TRUE, len |-> 2]
             ELSE [valid |-> FALSE, len |-> 1]
      ELSE IF b >= 224 /\ b <= 239 THEN
             IF ~(has(1) /\ second3) THEN [valid |-> FALSE, len |-> 1]
             ELSE IF ~(has(2) /\ IsCont(c(2))) THEN [valid |-> FALSE, len |-> 2]
             ELSE [valid |-> TRUE, len |-> 3]
      ELSE IF b >= 240 /\ b <= 244 THEN
             IF ~(has(1) /\ second4) THEN [valid |-> FALSE, len |-> 1]
             ELSE IF ~(has(2) /\ IsCont(c(2))) THEN [valid |-> FALSE, len |-> 2]
             ELSE IF ~(has(3) /\ IsCont(c(3))) THEN [valid |-> FALSE, len |-> 3]
             ELSE [valid |-> TRUE, len |-> 4]
      ELSE [valid |-> FALSE, len |-> 1]

\* String::from_utf8_lossy(..).to_string(), as bytes
RECURSIVE from_utf8_lossy_from(_, _)
from_utf8_lossy_from(s, k) ==
  IF k > Len(s) THEN <<>>
  ELSE LET st == Utf8Step(s, k)
       IN  (IF st.valid THEN SubSeq(s, k, k + st.len - 1) ELSE REPLACEMENT)
             \o from_utf8_lossy_from(s, k + st.len)

from_utf8_lossy(s) == from_utf8_lossy_from(s, 1)

IsDigit(b) == b >= CH_0 /\ b <= CH_9

RECURSIVE StripZeros(_)
StripZeros(d) == IF Len(d) > 1 /\ d[1] = CH_0 THEN StripZeros(Tail(d)) ELSE d

RECURSIVE DecValue(_)
DecValue(d) ==
  IF d = <<>> THEN 0 ELSE 10 * DecValue(SubSeq(d, 1, Len(d) - 1)) + (d[Len(d)] - CH_0)

\* d <= e for two digit strings of the same length
RECURSIVE DigitsLeq(_, _)
DigitsLeq(d, e) ==
  IF d = <<>> THEN TRUE
  ELSE IF d[1] # e[1] THEN d[1] < e[1]
  ELSE DigitsLeq(Tail(d), Tail(e))

\* A length no buffer of the model reaches.  It stands for every value from
\* 10^9 to usize::MAX: they compare alike with the lengths of the model, and
\* differ only in how far they are from overflowing (`room` below).
HUGE == 1000000000

\* 2^64 - n for the digit string z of a value n of ten digits or more, when
\* that is less than a thousand; HUGE otherwise.
room_of(z) ==
  IF Len(z) = Len(U64MAX)
     /\ SubSeq(z, 1, Len(z) - 3) = SubSeq(U64MAX, 1, Len(U64MAX) - 3)
    THEN DecValue(SubSeq(U64MAX, Len(U64MAX) - 2, Len(U64MAX))) + 1
           - DecValue(SubSeq(z, Len(z) - 2, Len(z)))
    ELSE HUGE

\* String::from_utf8_lossy(bytes).parse::<usize>(): an optional '+', then one
\* or more ASCII digits, no overflow of 64 bits.  `room` is what can be added
\* to the value before a usize overflows (HUGE when that is a thousand or more).
parse_usize(bytes) ==
  LET d == IF Len(bytes) > 0 /\ bytes[1] = PLUS THEN Tail(bytes) ELSE bytes
      z == StripZeros(d)
  IN  IF d = <<>> \/ \E k \in 1..Len(d) : ~IsDigit(d[k])
        THEN [ok |-> FALSE, value |-> 0, room |-> HUGE]
      ELSE IF Len(z) <= 9 THEN [ok |-> TRUE, value |-> DecValue(z), room |-> HUGE]
      ELSE IF Len(z) < Len(U64MAX) \/ (Len(z) = Len(U64MAX) /\ DigitsLeq(z, U64MAX))
        THEN [ok |-> TRUE, value |-> HUGE, room |-> room_of(z)]
      ELSE [ok |-> FALSE, value |-> 0, room |-> HUGE]

\* --------------------------------------------------------------- codec
safe_line_from_slice(s) ==
  from_utf8_lossy([k \in 1..Len(s) |-> IF s[k] < SP THEN SP ELSE s[k]])

safe_line_from_string(s) == safe_line_from_slice(s)

\* (args, err, new_ni, complete) and whether the call panicked
Taken(args, err, ni, complete) ==
  [args |-> args, err |-> err, ni |-> ni, complete |-> complete, panic |-> FALSE]

Panicked(ni) ==
  [args |-> <<>>, err |-> <<>>, ni |-> ni, complete |-> FALSE, panic |-> TRUE]

is_hex(b) ==
  \/ (b >= CH_0 /\ b <= CH_9)
  \/ (b >= CH_a /\ b <= CH_f)
  \/ (b >= CH_A /\ b <= CH_F)

hex_to_digit(b) ==
  IF b <= CH_9 THEN b - CH_0
  ELSE IF b <= CH_F THEN b - CH_A + 10
  ELSE b - CH_a + 10

parse_hex_byte(packet, i) ==
  IF i + 1 < Len(packet) THEN
    IF is_hex(At(packet, i)) /\ is_hex(At(packet, i + 1))
      THEN [some |-> TRUE,
            value |-> ((hex_to_digit(At(packet, i)) * 16) % 256)
                        + hex_to_digit(At(packet, i + 1))]
      ELSE [some |-> FALSE, value |-> 0]
  ELSE [some |-> FALSE, value |-> 0]

Quoted(arg, i, balanced, panic) ==
  [arg |-> arg, i |-> i, balanced |-> balanced, panic |-> panic]

\* The `while` of parse_quoted_arg.  The third arm of the `match` is
\* `ch if packet[i] == ch`: the pattern `ch` is a fresh binding of the matched
\* byte (the outer `ch` is a local, not a constant), so the guard compares the
\* byte with itself.
RECURSIVE parse_quoted_arg_loop(_, _, _)
parse_quoted_arg_loop(packet, i, arg) ==
  IF ~(i < Len(packet)) THEN Quoted(<<>>, i, FALSE, FALSE)
  ELSE IF At(packet, i) = LF THEN Quoted(<<>>, i, FALSE, FALSE)
  ELSE IF At(packet, i) = BACKSLASH THEN
    LET j == i + 1
    IN  IF ~(j < Len(packet)) THEN Quoted(<<>>, j, FALSE, TRUE)
        ELSE IF At(packet, j) = CH_n THEN parse_quoted_arg_loop(packet, j + 1, Append(arg, LF))
        ELSE IF At(packet, j) = CH_r THEN parse_quoted_arg_loop(packet, j + 1, Append(arg, CR))
        ELSE IF At(packet, j) = CH_t THEN parse_quoted_arg_loop(packet, j + 1, Append(arg, TAB))
        ELSE IF At(packet, j) = CH_b THEN parse_quoted_arg_loop(packet, j + 1, Append(arg, BACKSPACE))
        ELSE IF At(packet, j) = CH_a THEN parse_quoted_arg_loop(packet, j + 1, Append(arg, BELL))
        ELSE IF At(packet, j) = CH_x THEN
          LET h == parse_hex_byte(packet, j + 1)
          IN  IF h.some THEN parse_quoted_arg_loop(packet, j + 3, Append(arg, h.value))
              ELSE parse_quoted_arg_loop(packet, j + 1, Append(arg, CH_x))
        ELSE parse_quoted_arg_loop(packet, j + 1, Append(arg, At(packet, j)))
  ELSE LET ch == At(packet, i)
       IN  IF At(packet, i) = ch THEN Quoted(arg, i + 1, TRUE, FALSE)
           ELSE parse_quoted_arg_loop(packet, i + 1, Append(arg, At(packet, i)))

parse_quoted_arg(packet, i) == parse_quoted_arg_loop(packet, i, <<>>)

\* The `while` of redcon_take_inline_args, with its locals i, s and args.
RECURSIVE inline_loop(_, _, _, _, _)
inline_loop(packet, ni, i, s, args) ==
  IF ~(i < Len(packet)) THEN Taken(<<>>, <<>>, ni, FALSE)
  ELSE IF At(packet, i) = SP \/ At(packet, i) = LF THEN
    LET ii == IF At(packet, i) = LF /\ i > s /\ At(packet, i - 1) = CR THEN i - 1 ELSE i
        args1 == IF s # ii THEN Append(args, Slice(packet, s, ii)) ELSE args
    IN  IF s > ii THEN Panicked(ni)
        ELSE IF At(packet, i) = LF THEN Taken(args1, <<>>, i + 1, TRUE)
        ELSE inline_loop(packet, ni, i + 1, i + 1, args1)
  ELSE IF At(packet, i) = DQUOTE \/ At(packet, i) = SQUOTE THEN
    LET q == parse_quoted_arg(packet, i + 1)
    IN  IF q.panic THEN Panicked(ni)
        ELSE IF ~q.balanced THEN Taken(<<>>, ERR_UNBALANCED, ni, FALSE)
        ELSE inline_loop(packet, ni, q.i + 1, q.i + 1, Append(args, q.arg))
  ELSE inline_loop(packet, ni, i + 1, s, args)

redcon_take_inline_args(packet, ni) == inline_loop(packet, ni, ni, ni, <<>>)

\* The first i' >= i with input[i'-1] = CR and input[i'] = LF, or the value of
\* i at which `while i < input.len()` gives up.
RECURSIVE scan_crlf(_, _)
scan_crlf(input, i) ==
  IF ~(i < Len(input)) THEN [found |-> FALSE, i |-> i]
  ELSE IF At(input, i - 1) = CR /\ At(input, i) = LF THEN [found |-> TRUE, i |-> i]
  ELSE scan_crlf(input, i + 1)

\* (args, err, i, complete) as the function's last lines return them
multibulk_result(args, err, i, complete) ==
  Taken(args,
        IF err # <<>> THEN ERR_PROTO_PREFIX \o safe_line_from_string(err) ELSE err,
        i, complete)

\* `for _ in 0..nargs`, iteration k, with the locals i and args.  Once i has
\* reached the end of the buffer every remaining iteration changes nothing.
\* A bulk length so close to usize::MAX that `i + 1 + nbytes + 2` overflows
\* panics: on the addition with overflow checks, on the slice
\* `input[i + 1..i + 1 + nbytes]` without them.  (Without overflow checks
\* one case does not panic: nbytes = usize::MAX with the buffer ending at the
\* header's LF wraps to i + 2 and is taken for a payload not yet there.  No
\* stream of the specifications below has such a length.)
RECURSIVE bulk_loop(_, _, _, _, _)
bulk_loop(input, i, args, nargs, k) ==
  IF k >= nargs \/ ~(i < Len(input)) THEN multibulk_result(args, <<>>, i, nargs = 0)
  ELSE
    LET s == i
        f == scan_crlf(input, i)
    IN  IF ~f.found THEN bulk_loop(input, f.i, args, nargs, k + 1)
        ELSE IF At(input, s) # DOLLAR THEN
          multibulk_result(args, MSG_EXPECTED \o char_utf8(At(input, s)) \o <<SQUOTE>>,
                           f.i, FALSE)
        ELSE
          LET nb == parse_usize(Slice(input, s + 1, f.i - 1))
          IN  IF ~nb.ok THEN multibulk_result(args, MSG_BULKLEN, f.i, FALSE)
              ELSE IF f.i + 3 >= nb.room THEN Panicked(f.i)
              ELSE IF Len(input) < f.i + 1 + nb.value + 2
                THEN bulk_loop(input, f.i, args, nargs, k + 1)
              ELSE
                LET args1 == Append(args, Slice(input, f.i + 1, f.i + 1 + nb.value))
                    i1 == f.i + 1 + nb.value + 2
                IN  IF Len(args1) = nargs THEN multibulk_result(args1, <<>>, i1, TRUE)
                    ELSE bulk_loop(input, i1, args1, nargs, k + 1)

redcon_take_multibulk_args(input, ni) ==
  LET f == scan_crlf(input, ni + 1)
  IN  IF ~f.found THEN multibulk_result(<<>>, <<>>, f.i, FALSE)
      ELSE
        LET n == parse_usize(Slice(input, ni + 1, f.i - 1))
        IN  IF ~n.ok THEN multibulk_result(<<>>, MSG_MBLEN, f.i, FALSE)
            ELSE bulk_loop(input, f.i + 1, <<>>, n.value, 0)

redcon_take_args(input, ni) ==
  IF Len(input) > ni THEN
    IF At(input, ni) = STAR THEN redcon_take_multibulk_args(input, ni)
    ELSE redcon_take_inline_args(input, ni)
  ELSE Taken(<<>>, <<>>, ni, FALSE)

\* ---------------------------------------------------------- dispatcher
arg_match(arg, what) ==
  IF Len(arg) # Len(what) THEN FALSE
  ELSE \A i \in 1..Len(arg) :
         \/ arg[i] = what[i]
         \/ IF arg[i] >= CH_a /\ arg[i] <= CH_z THEN arg[i] = what[i] + 32
            ELSE IF arg[i] >= CH_A /\ arg[i] <= CH_Z THEN arg[i] = what[i] - 32
            ELSE TRUE

make_bulk(bulk) == <<DOLLAR>> \o to_string(Len(bulk)) \o <<CR, LF>> \o bulk \o <<CR, LF>>

make_array(count) == <<STAR>> \o to_string(count) \o <<CR, LF>>

invalid_num_args(cmd) == MSG_WRONGARGS_PRE \o from_utf8_lossy(cmd) \o MSG_WRONGARGS_POST

\* HashMap<Vec<u8>, Vec<u8>> as a function on its set of keys
EmptyKeys == [k \in {} |-> <<>>]

keys_insert(keys, k, v) == [x \in DOMAIN keys \cup {k} |-> IF x = k THEN v ELSE keys[x]]

\* A remove that leaves the entry in place
keys_remove_kept(keys, k) == keys

keys_remove(keys, k) == [x \in DOMAIN keys \ {k} |-> keys[x]]

\* The glob matcher of the `glob` crate, for patterns made of literal bytes,
\* `?` and `*`.  Character classes are not modelled: Pattern::new is taken to
\* fail on `[`, which no input of the specifications below contains.
QMARK == 63
LBRACKET == 91

pattern_new_ok(pat) == \A k \in 1..Len(pat) : pat[k] # LBRACKET

RECURSIVE pattern_matches(_, _)
pattern_matches(pat, str) ==
  IF pat = <<>> THEN str = <<>>
  ELSE IF pat[1] = STAR THEN
    \/ pattern_matches(Tail(pat), str)
    \/ (str # <<>> /\ pattern_matches(pat, Tail(str)))
  ELSE /\ str # <<>>
       /\ (pat[1] = QMARK \/ pat[1] = str[1])
       /\ pattern_matches(Tail(pat), Tail(str))

\* Byte strings in length-then-lexicographic order
RECURSIVE SeqLess(_, _)
SeqLess(a, b) ==
  IF Len(a) # Len(b) THEN Len(a) < Len(b)
  ELSE IF a = <<>> THEN FALSE
  ELSE IF a[1] # b[1] THEN a[1] < b[1]
  ELSE SeqLess(Tail(a), Tail(b))

RECURSIVE Sorted(_)
Sorted(S) ==
  IF S = {} THEN <<>>
  ELSE LET m == CHOOSE x \in S : \A y \in S \ {x} : SeqLess(x, y)
       IN  <<m>> \o Sorted(S \ {m})

RECURSIVE Concat(_)
Concat(ss) == IF ss = <<>> THEN <<>> ELSE Head(ss) \o Concat(Tail(ss))

\* The reply of KEYS <pat>.  HashMap iteration order is unspecified: the
\* matching keys are listed here in one of the orders it can take.  The
\* specifications below call KEYS with a wrong number of arguments only, so
\* nothing checked here depends on that order.
keys_reply(pat, keys) ==
  IF pattern_new_ok(from_utf8_lossy(pat)) THEN
    LET res_keys == Sorted({k \in DOMAIN keys :
                              pattern_matches(from_utf8_lossy(pat), from_utf8_lossy(k))})
    IN  make_array(Len(res_keys)) \o Concat([j \in 1..Len(res_keys) |-> make_bulk(res_keys[j])])
  ELSE NULLBULK

\* (reply, was_write, should_close) and the store afterwards
Handled(out, write, close, keys) ==
  [out |-> out, write |-> write, close |-> close, keys |-> keys]

handle_command(args, keys) ==
  IF arg_match(args[1], PING) THEN
    IF Len(args) = 1 THEN Handled(PONG, FALSE, FALSE, keys)
    ELSE IF Len(args) = 2 THEN Handled(make_bulk(args[2]), FALSE, FALSE, keys)
    ELSE Handled(invalid_num_args(args[1]), FALSE, FALSE, keys)
  ELSE IF arg_match(args[1], SET) THEN
    IF Len(args) = 3 THEN Handled(OK, TRUE, FALSE, keys_insert(keys, args[2], args[3]))
    ELSE Handled(invalid_num_args(args[1]), FALSE, FALSE, keys)
  ELSE IF arg_match(args[1], FLUSHDB) THEN
    IF Len(args) = 1 THEN Handled(OK, TRUE, FALSE, EmptyKeys)
    ELSE Handled(invalid_num_args(args[1]), FALSE, FALSE, keys)
  ELSE IF arg_match(args[1], DEL) THEN
    IF Len(args) = 2 THEN
      IF args[2] \in DOMAIN keys THEN Handled(INT1, TRUE, FALSE, keys_remove(keys, args[2]))
      ELSE Handled(INT0, FALSE, FALSE, keys)
    ELSE Handled(invalid_num_args(args[1]), FALSE, FALSE, keys)
  ELSE IF arg_match(args[1], GET) THEN
    IF Len(args) = 2 THEN
      IF args[2] \in DOMAIN keys THEN Handled(make_bulk(keys[args[2]]), FALSE, FALSE, keys)
      ELSE Handled(NULLBULK, FALSE, FALSE, keys)
    ELSE Handled(invalid_num_args(args[1]), FALSE, FALSE, keys)
  ELSE IF arg_match(args[1], KEYS) THEN
    IF Len(args) = 2 THEN Handled(keys_reply(args[2], keys), FALSE, FALSE, keys)
    ELSE Handled(invalid_num_args(args[1]), FALSE, FALSE, keys)
  ELSE IF arg_match(args[1], QUIT) THEN Handled(OK, FALSE, TRUE, keys)
  ELSE Handled(MSG_UNKNOWN_PRE \o safe_line_from_slice(args[1]) \o MSG_UNKNOWN_POST,
               FALSE, FALSE, keys)

\* ---------------------------------------------------------- event_data
\* The first `loop` of event_data: the cursor i after the last complete
\* frame, the non-empty frames taken, and the error that stopped it, if any.
RECURSIVE decode_loop(_, _, _)
decode_loop(input, i, argss) ==
  LET t == redcon_take_args(input, i)
  IN  IF t.panic THEN [i |-> i, argss |-> argss, err |-> <<>>, panic |-> TRUE]
      ELSE IF t.err # <<>> THEN [i |-> i, argss |-> argss, err |-> t.err, panic |-> FALSE]
      ELSE IF ~t.complete THEN [i |-> i, argss |-> argss, err |-> <<>>, panic |-> FALSE]
      ELSE decode_loop(input, t.ni,
                       IF Len(t.args) > 0 THEN Append(argss, t.args) ELSE argss)

\* `for args in argss` under the store lock, from frame k on
RECURSIVE dispatch_loop(_, _, _, _)
dispatch_loop(argss, k, keys, output) ==
  IF k > Len(argss) THEN [output |-> output, close |-> FALSE, keys |-> keys, done |-> k - 1]
  ELSE LET h == handle_command(argss[k], keys)
       IN  IF h.close
             THEN [output |-> output \o h.out, close |-> TRUE, keys |-> h.keys, done |-> k]
           ELSE dispatch_loop(argss, k + 1, h.keys, output \o h.out)

\* The reply of each frame dispatch_loop executes, in the order of the frames
RECURSIVE dispatch_outs(_, _, _)
dispatch_outs(argss, k, keys) ==
  IF k > Len(argss) THEN <<>>
  ELSE LET h == handle_command(argss[k], keys)
       IN  IF h.close THEN <<h.out>> ELSE <<h.out>> \o dispatch_outs(argss, k + 1, h.keys)

\* `input` left as it was
retain_all(input, i) == input

\* The input left once the consumed prefix [0, i) is dropped
retain_tail(input, i) ==
  IF i > 0 THEN (IF i < Len(input) THEN Slice(input, i, Len(input)) ELSE <<>>)
  ELSE input

\* "-{err}\r\n"
error_reply(err) == <<MINUS>> \o err \o <<CR, LF>>

\* event_data after its first loop has returned d
\* (`if err != ""` ... `(output, close)`), with the results the properties
\* read: whether the codec panicked or reported a protocol error, the frames
\* taken, how many were executed and the reply of each.
event_data_after(input, keys, d) ==
  IF d.panic
    THEN [output |-> <<>>, close |-> FALSE, input |-> input, keys |-> keys,
          panic |-> TRUE, perr |-> FALSE, argss |-> d.argss, done |-> 0, outs |-> <<>>]
  ELSE IF d.err # <<>>
    THEN [output |-> error_reply(d.err), close |-> TRUE,
          input |-> retain_tail(input, d.i), keys |-> keys,
          panic |-> FALSE, perr |-> TRUE, argss |-> d.argss, done |-> 0,
          outs |-> <<error_reply(d.err)>>]
  ELSE IF Len(d.argss) > 0
    THEN [input |-> retain_tail(input, d.i), panic |-> FALSE, perr |-> FALSE,
          argss |-> d.argss, outs |-> dispatch_outs(d.argss, 1, keys)]
         @@ dispatch_loop(d.argss, 1, keys, <<>>)
  ELSE [output |-> <<>>, close |-> FALSE, input |-> retain_tail(input, d.i),
        keys |-> keys, panic |-> FALSE, perr |-> FALSE, argss |-> d.argss,
        done |-> 0, outs |-> <<>>]

\* event_data(id, input, store): (output, close), the new `input` and the
\* store afterwards
event_data(input, keys) == event_data_after(input, keys, decode_loop(input, 0, <<>>))

\* ------------------------------------------------------------- bounds
\* Connections the clients open
MaxConns == 2
\* Commands one dispatcher history holds
MaxCmds == 3

\* ----------------------------------------------------- program constants
\* `threads`: the number of worker reactors (child polls)
T == 2
\* child_loop's scratch buffer: `let mut packet = [0; 4096]`
PACKET == 4096

Ids == 1..MaxConns
Workers == 0..(T - 1)

\* Every connection registered with the first child poll
child_first(c) == 0

\* child_polls[id % child_polls.len()]
child_of(c) == c % T

\* What the clients of the reactor specification send, one script each.
Scripts ==
  { <<80,73,78,71,10,81,85,73,84,10>>,   \* "PING\nQUIT\n"
    <<80,73,78,71,10,42,120,13,10,81,10>> }  \* "PING\n*x\r\nQ\n": a multibulk header with a bad count

VARIABLES
  \* the clients and the sockets
  nconn,      \* connections the clients have opened so far: 1..nconn
  tosend,     \* per connection: the bytes its client has still to send
  rcvbuf,     \* per connection: bytes arrived at the server socket, unread
  sockst,     \* per connection: "open", "fin" (client closed), "reset", "closed"
  sent,       \* per connection: the bytes the server wrote to the socket
  \* main_loop
  main_ev,    \* the edge-triggered readiness of the listener, not yet polled
  id,         \* main_loop's `id`
  apc,        \* main_loop's position: "poll" or "insert"
  main_conns, \* the ids in the shared handoff map
  reg,        \* per connection: its interest in its child poll: "none", "rw", "r"
  \* child_loop, one per worker
  streams,    \* per worker: the ids in its private map
  wpc,        \* per worker: "poll", "drain" (in handle_existing_connection), "dead"
  wid,        \* per worker: the id of the event being handled
  wclose,     \* per worker: child_loop's local `close`
  \* Conn records and the store
  conns,      \* per connection: [input, output, close, reg_write]
  store,      \* Store.keys
  \* history, for the properties
  replies,    \* per connection: the replies produced, one entry per reply
  perr,       \* per connection: the codec reported a protocol error
  nexec       \* per connection: the commands executed

VARIABLES
  \* the decoding pipeline on its own: one connection's reads, no writes
  cstream,    \* the byte stream the client sends
  crest,      \* the part of it not yet read
  cbuf,       \* `input` as the last call of event_data found it
  cinput,     \* `input` as the last call left it: the retained tail
  ckeys,      \* Store.keys
  cframes,    \* the frames handed to handle_command so far
  creplies,   \* the replies so far, one entry per reply
  cclose,     \* the close decision
  cpanic      \* the codec panicked

VARIABLES
  \* the dispatcher on its own
  dkeys,      \* Store.keys
  dhist,      \* the argument vectors handle_command was called with
  dlast       \* the last call: [args, before, out, write, close]

VARIABLES
  \* the workers at the store lock of event_data
  lock,       \* the worker holding the Mutex of the Store, or NoOwner
  lpc,        \* per worker: "idle", "wait" (in store.lock()), "held"
  lbatch,     \* per worker: [argss, keys]: its `argss` and the keys it locked
  lnext,      \* per worker: the index in argss of the next frame to execute
  louts,      \* per worker: the replies of the frames executed from argss
  lkeys,      \* Store.keys
  ltrace,     \* the executions so far: <<worker, number of its batch>>
  ldone       \* per worker: the batches it has finished

sysvars == <<nconn, tosend, rcvbuf, sockst, sent, main_ev, id, apc, main_conns, reg,
             streams, wpc, wid, wclose, conns, store, replies, perr, nexec>>

codecvars == <<cstream, crest, cbuf, cinput, ckeys, cframes, creplies, cclose, cpanic>>

cmdvars == <<dkeys, dhist, dlast>>

lockvars == <<lock, lpc, lbatch, lnext, louts, lkeys, ltrace, ldone>>

vars == <<sysvars, codecvars, cmdvars, lockvars>>

NewConn == [input |-> <<>>, output |-> <<>>, close |-> FALSE, reg_write |-> FALSE]

\* The state main leaves behind once the listener is bound and the threads
\* are spawned, with f the script of each client.
SysStart(f) ==
  /\ nconn = 0
  /\ tosend = f
  /\ rcvbuf = [c \in Ids |-> <<>>]
  /\ sockst = [c \in Ids |-> "open"]
  /\ sent = [c \in Ids |-> <<>>]
  /\ main_ev = FALSE
  /\ id = 0
  /\ apc = "poll"
  /\ main_conns = {}
  /\ reg = [c \in Ids |-> "none"]
  /\ streams = [w \in Workers |-> {}]
  /\ wpc = [w \in Workers |-> "poll"]
  /\ wid = [w \in Workers |-> 0]
  /\ wclose = [w \in Workers |-> FALSE]
  /\ conns = [c \in Ids |-> NewConn]
  /\ store = EmptyKeys
  /\ replies = [c \in Ids |-> <<>>]
  /\ perr = [c \in Ids |-> FALSE]
  /\ nexec = [c \in Ids |-> 0]

\* The first connection talks; the others connect and, in time, close.
SysInit ==
  \E f \in [Ids -> Scripts \cup {<<>>}] :
    /\ \A c \in Ids : (f[c] # <<>>) <=> (c = 1)
    /\ SysStart(f)

\* No client at all
SysIdle == SysStart([c \in Ids |-> <<>>])

\* ------------------------------------------------------------ clients
ClientConnect ==
  /\ nconn < MaxConns
  /\ nconn' = nconn + 1
  /\ main_ev' = TRUE
  /\ UNCHANGED <<codecvars, cmdvars, lockvars, tosend, rcvbuf, sockst, sent, id, apc, main_conns,
                 reg, streams, wpc, wid, wclose, conns, store, replies, perr, nexec>>

ClientSend(c, n) ==
  /\ c <= nconn
  /\ sockst[c] = "open"
  /\ n \in 1..Len(tosend[c])
  /\ rcvbuf' = [rcvbuf EXCEPT ![c] = @ \o SubSeq(tosend[c], 1, n)]
  /\ tosend' = [tosend EXCEPT ![c] = split_off(@, n)]
  /\ UNCHANGED <<codecvars, cmdvars, lockvars, nconn, sockst, sent, main_ev, id, apc, main_conns, reg, streams, wpc,
                 wid, wclose, conns, store, replies, perr, nexec>>

\* Having sent its script, the client closes its side (FIN), or the
\* connection is reset.
ClientClose(c, how) ==
  /\ c <= nconn
  /\ sockst[c] = "open"
  /\ tosend[c] = <<>>
  /\ how \in {"fin", "reset"}
  /\ sockst' = [sockst EXCEPT ![c] = how]
  /\ UNCHANGED <<codecvars, cmdvars, lockvars, nconn, tosend, rcvbuf, sent, main_ev, id, apc, main_conns, reg, streams,
                 wpc, wid, wclose, conns, store, replies, perr, nexec>>

\* ---------------------------------------------------------- main_loop
\* One iteration up to the registration with the child poll: poll returns on
\* the listener's edge, and accept is called once.
main_loop_accept ==
  /\ apc = "poll"
  /\ main_ev
  /\ main_ev' = FALSE
  /\ IF id < nconn
       THEN /\ id' = id + 1
            /\ reg' = [reg EXCEPT ![id + 1] = "rw"]
            /\ apc' = "insert"
       ELSE UNCHANGED <<id, reg, apc>>
  /\ UNCHANGED <<codecvars, cmdvars, lockvars, nconn, tosend, rcvbuf, sockst, sent, main_conns, streams, wpc, wid,
                 wclose, conns, store, replies, perr, nexec>>

\* main_conns.lock().unwrap().insert(id, Conn {..})
main_loop_insert ==
  /\ apc = "insert"
  /\ main_conns' = main_conns \cup {id}
  /\ conns' = [conns EXCEPT ![id] = NewConn]
  /\ apc' = "poll"
  /\ UNCHANGED <<codecvars, cmdvars, lockvars, nconn, tosend, rcvbuf, sockst, sent, main_ev, id, reg, streams, wpc,
                 wid, wclose, store, replies, perr, nexec>>

\* --------------------------------------------------------- child_loop
Readable(c) == rcvbuf[c] # <<>> \/ sockst[c] \in {"fin", "reset"}

\* The child poll of worker w has an event for token c.
Ready(w, c) ==
  /\ child_of(c) = w
  /\ reg[c] # "none"
  /\ (reg[c] = "rw" \/ Readable(c))

event_opened == [output |-> <<>>, close |-> FALSE]

\* An event for an id the worker has not adopted: handle_new_connection.
handle_new_connection(w, c) ==
  /\ wpc[w] = "poll"
  /\ Ready(w, c)
  /\ c \notin streams[w]
  /\ IF c \in main_conns
       THEN /\ main_conns' = main_conns \ {c}
            /\ IF Len(event_opened.output) > 0
                 THEN /\ conns' = [conns EXCEPT ![c].reg_write = TRUE,
                                                ![c].close = event_opened.close,
                                                ![c].output = event_opened.output]
                      /\ reg' = [reg EXCEPT ![c] = "rw"]
                      /\ streams' = [streams EXCEPT ![w] = @ \cup {c}]
                 ELSE IF ~event_opened.close
                   THEN /\ reg' = [reg EXCEPT ![c] = "r"]
                        /\ streams' = [streams EXCEPT ![w] = @ \cup {c}]
                        /\ UNCHANGED conns
                   ELSE /\ reg' = [reg EXCEPT ![c] = "none"]
                        /\ UNCHANGED <<streams, conns>>
       ELSE UNCHANGED <<main_conns, conns, reg, streams>>
  /\ UNCHANGED <<codecvars, cmdvars, lockvars, nconn, tosend, rcvbuf, sockst, sent, main_ev, id, apc, wpc, wid, wclose,
                 store, replies, perr, nexec>>

\* An event for an adopted id: child_loop enters handle_existing_connection.
child_loop_event(w, c) ==
  /\ wpc[w] = "poll"
  /\ Ready(w, c)
  /\ c \in streams[w]
  /\ wpc' = [wpc EXCEPT ![w] = "drain"]
  /\ wid' = [wid EXCEPT ![w] = c]
  /\ wclose' = [wclose EXCEPT ![w] = FALSE]
  /\ UNCHANGED <<codecvars, cmdvars, lockvars, nconn, tosend, rcvbuf, sockst, sent, main_ev, id, apc, main_conns, reg,
                 streams, conns, store, replies, perr, nexec>>

\* The `output` the drain loop of worker w is writing
pending_output(w) == IF wpc[w] = "drain" THEN conns[wid[w]].output ELSE <<>>

\* One pass of `while conn.output.len() > 0`: the write returns Ok(n), or
\* would-block, or (on a reset connection) another error.
drain_write(w, n) ==
  /\ wpc[w] = "drain"
  /\ Len(conns[wid[w]].output) > 0
  /\ sockst[wid[w]] # "reset"
  /\ n \in 1..Len(conns[wid[w]].output)
  /\ sent' = [sent EXCEPT ![wid[w]] = @ \o SubSeq(conns[wid[w]].output, 1, n)]
  /\ conns' = [conns EXCEPT ![wid[w]].output = split_off(@, n)]
  /\ UNCHANGED <<codecvars, cmdvars, lockvars, nconn, tosend, rcvbuf, sockst, main_ev, id, apc, main_conns, reg,
                 streams, wpc, wid, wclose, store, replies, perr, nexec>>

drain_would_block(w) ==
  /\ wpc[w] = "drain"
  /\ Len(conns[wid[w]].output) > 0
  /\ sockst[wid[w]] # "reset"
  /\ UNCHANGED <<codecvars, cmdvars, lockvars, nconn, tosend, rcvbuf, sockst, sent, main_ev, id, apc, main_conns, reg,
                 streams, wpc, wid, wclose, conns, store, replies, perr, nexec>>

drain_error(w) ==
  /\ wpc[w] = "drain"
  /\ Len(conns[wid[w]].output) > 0
  /\ sockst[wid[w]] = "reset"
  /\ wclose' = [wclose EXCEPT ![w] = TRUE]
  /\ UNCHANGED <<codecvars, cmdvars, lockvars, nconn, tosend, rcvbuf, sockst, sent, main_ev, id, apc, main_conns, reg,
                 streams, wpc, wid, conns, store, replies, perr, nexec>>

\* The end of the child_loop iteration of worker w handling c: with the local
\* `close` set the record is removed from the private map, which drops the
\* Conn and closes (and so deregisters) its socket.  The locals of the
\* iteration go out of scope.
Finish(w, c, close) ==
  /\ wpc' = [wpc EXCEPT ![w] = "poll"]
  /\ wclose' = [wclose EXCEPT ![w] = FALSE]
  /\ wid' = [wid EXCEPT ![w] = 0]
  /\ IF close
       THEN /\ streams' = [streams EXCEPT ![w] = @ \ {c}]
            /\ reg' = [reg EXCEPT ![c] = "none"]
            /\ sockst' = [sockst EXCEPT ![c] = "closed"]
       ELSE UNCHANGED <<streams, reg, sockst>>

\* `output` is empty and conn.close is set: no read.
read_skipped(w) ==
  /\ wpc[w] = "drain"
  /\ Len(conns[wid[w]].output) = 0
  /\ conns[wid[w]].close
  /\ Finish(w, wid[w], wclose[w])
  /\ UNCHANGED <<codecvars, cmdvars, lockvars, nconn, tosend, rcvbuf, sent, main_ev, id, apc, main_conns, conns, store,
                 replies, perr, nexec>>

\* The read returns no data: would-block while the connection is open, Ok(0)
\* once the peer has closed, an error once the connection was reset.  The last
\* two are `*close = true`.
read_no_data(w) ==
  /\ wpc[w] = "drain"
  /\ Len(conns[wid[w]].output) = 0
  /\ ~conns[wid[w]].close
  /\ rcvbuf[wid[w]] = <<>> \/ sockst[wid[w]] = "reset"
  /\ Finish(w, wid[w], IF sockst[wid[w]] = "open" THEN wclose[w] ELSE TRUE)
  /\ UNCHANGED <<codecvars, cmdvars, lockvars, nconn, tosend, rcvbuf, sent, main_ev, id, apc, main_conns, conns, store,
                 replies, perr, nexec>>

\* handle_existing_connection and child_loop after the read returned Ok(n),
\* n > 0, given e, the result of event_data on `input` extended by the bytes
\* read; a panic in the codec ends the worker thread.
read_done(w, c, e) ==
  IF e.panic
    THEN /\ conns' = [conns EXCEPT ![c].input = e.input]
         /\ wpc' = [wpc EXCEPT ![w] = "dead"]
         /\ UNCHANGED <<store, replies, perr, nexec, wclose, wid, streams, reg, sockst>>
    ELSE /\ conns' = [conns EXCEPT ![c].input = e.input,
                                   ![c].output = @ \o e.output,
                                   ![c].close = e.close]
         /\ store' = e.keys
         /\ replies' = [replies EXCEPT ![c] = @ \o e.outs]
         /\ perr' = [perr EXCEPT ![c] = e.perr]
         /\ nexec' = [nexec EXCEPT ![c] = @ + e.done]
         /\ Finish(w, c, wclose[w])

\* The bytes one read returns: what has arrived, up to the scratch buffer
read_len(c) == IF Len(rcvbuf[c]) < PACKET THEN Len(rcvbuf[c]) ELSE PACKET

\* The read made without the test of conn.close
read_data_unguarded(w) ==
  /\ wpc[w] = "drain"
  /\ Len(conns[wid[w]].output) = 0
  /\ sockst[wid[w]] # "reset"
  /\ read_len(wid[w]) > 0
  /\ rcvbuf' = [rcvbuf EXCEPT ![wid[w]] = split_off(@, read_len(wid[w]))]
  /\ read_done(w, wid[w],
               event_data(conns[wid[w]].input \o SubSeq(rcvbuf[wid[w]], 1, read_len(wid[w])),
                          store))
  /\ UNCHANGED <<codecvars, cmdvars, lockvars, nconn, tosend, sent, main_ev, id, apc, main_conns>>

\* The read made without waiting for `output` to be drained
read_data_undrained(w) ==
  /\ wpc[w] = "drain"
  /\ ~conns[wid[w]].close
  /\ sockst[wid[w]] # "reset"
  /\ read_len(wid[w]) > 0
  /\ rcvbuf' = [rcvbuf EXCEPT ![wid[w]] = split_off(@, read_len(wid[w]))]
  /\ read_done(w, wid[w],
               event_data(conns[wid[w]].input \o SubSeq(rcvbuf[wid[w]], 1, read_len(wid[w])),
                          store))
  /\ UNCHANGED <<codecvars, cmdvars, lockvars, nconn, tosend, sent, main_ev, id, apc, main_conns>>

\* The read returns Ok(n), n > 0: the bytes are appended to `input` and
\* event_data runs.
read_data(w) ==
  /\ wpc[w] = "drain"
  /\ Len(conns[wid[w]].output) = 0
  /\ ~conns[wid[w]].close
  /\ sockst[wid[w]] # "reset"
  /\ read_len(wid[w]) > 0
  /\ rcvbuf' = [rcvbuf EXCEPT ![wid[w]] = split_off(@, read_len(wid[w]))]
  /\ read_done(w, wid[w],
               event_data(conns[wid[w]].input \o SubSeq(rcvbuf[wid[w]], 1, read_len(wid[w])),
                          store))
  /\ UNCHANGED <<codecvars, cmdvars, lockvars, nconn, tosend, sent, main_ev, id, apc, main_conns>>

SysNext ==
  \/ ClientConnect
  \/ \E c \in Ids : \E n \in 1..Len(tosend[c]) : ClientSend(c, n)
  \/ \E c \in Ids : \E how \in {"fin", "reset"} : ClientClose(c, how)
  \/ main_loop_accept
  \/ main_loop_insert
  \/ \E w \in Workers : \E c \in Ids : handle_new_connection(w, c)
  \/ \E w \in Workers : \E c \in Ids : child_loop_event(w, c)
  \/ \E w \in Workers : \E n \in 1..Len(pending_output(w)) : drain_write(w, n)
  \/ \E w \in Workers : drain_would_block(w)
  \/ \E w \in Workers : drain_error(w)
  \/ \E w \in Workers : read_skipped(w)
  \/ \E w \in Workers : read_no_data(w)
  \/ \E w \in Workers : read_data(w)

\* ------------------------------------------- the decoding pipeline alone
Bytes == 0..255

HexDigit(d) == IF d < 10 THEN CH_0 + d ELSE CH_a + (d - 10)

\* The body of the quoted literal of byte x inside quotes q, per the escape
\* table: a named escape, a backslash before the quote and the backslash, the
\* byte itself otherwise.
EscapedByte(x, q) ==
  IF x = LF THEN <<BACKSLASH, CH_n>>
  ELSE IF x = CR THEN <<BACKSLASH, CH_r>>
  ELSE IF x = TAB THEN <<BACKSLASH, CH_t>>
  ELSE IF x = BACKSPACE THEN <<BACKSLASH, CH_b>>
  ELSE IF x = BELL THEN <<BACKSLASH, CH_a>>
  ELSE IF x = q \/ x = BACKSLASH THEN <<BACKSLASH, x>>
  ELSE <<x>>

\* The same byte as \xHH
HexEscapedByte(x) == <<BACKSLASH, CH_x, HexDigit(x \div 16), HexDigit(x % 16)>>

\* An inline request of one quoted argument, with its line terminator
QuotedLine(q, body) == <<q>> \o body \o <<q, CR, LF>>

QuotedLines ==
  { QuotedLine(q, EscapedByte(x, q)) : x \in Bytes, q \in {DQUOTE, SQUOTE} }
  \cup { QuotedLine(q, HexEscapedByte(x)) : x \in Bytes, q \in {DQUOTE, SQUOTE} }

\* Streams of more than one frame, inline and multi-bulk
MixedStreams ==
  { <<80,73,78,71,10,42,49,13,10,36,52,13,10,80,73,78,71,13,10>>,
    <<80,73,78,71,10,42,120,13,10>>,
    <<42,50,13,10,36,51,13,10,71,69,84,13,10,36,49,13,10,97,13,10>>,
    <<81,85,73,84,10,80,73,78,71,10>> }

Streams == QuotedLines \cup MixedStreams

CodecStart(st) ==
  /\ cstream = st
  /\ crest = st
  /\ cbuf = <<>>
  /\ cinput = <<>>
  /\ ckeys = EmptyKeys
  /\ cframes = <<>>
  /\ creplies = <<>>
  /\ cclose = FALSE
  /\ cpanic = FALSE

CodecInit == \E st \in Streams : CodecStart(st)

CodecIdle == CodecStart(<<>>)

\* One read of handle_existing_connection with `output` already flushed, given
\* buf, `input` extended by the bytes read, and e, the result of event_data
\* on it.
FeedDone(buf, e) ==
  /\ cbuf' = buf
  /\ cinput' = e.input
  /\ IF e.panic
       THEN /\ cpanic' = TRUE
            /\ UNCHANGED <<ckeys, cframes, creplies, cclose>>
       ELSE /\ ckeys' = e.keys
            /\ cframes' = cframes \o SubSeq(e.argss, 1, e.done)
            /\ creplies' = creplies \o e.outs
            /\ cclose' = e.close
            /\ UNCHANGED cpanic

\* The read returns the next n bytes of the stream.  No read follows once
\* conn.close is set, and none once the worker thread has panicked.
Feed(n) ==
  /\ ~cclose
  /\ ~cpanic
  /\ n \in 1..Len(crest)
  /\ crest' = split_off(crest, n)
  /\ FeedDone(cinput \o SubSeq(crest, 1, n),
              event_data(cinput \o SubSeq(crest, 1, n), ckeys))
  /\ UNCHANGED <<cstream, sysvars, cmdvars, lockvars>>

\* ------------------------------------------------- the dispatcher alone
\* The argument vectors handle_command is called with
CmdArgs ==
  { <<<<83,69,84>>, <<97>>, <<49>>>>,     \* SET a 1
    <<<<83,69,84>>, <<97>>, <<50,50>>>>,  \* SET a 22
    <<<<83,69,84>>, <<98>>, <<49>>>>,     \* SET b 1
    <<<<71,69,84>>, <<97>>>>,             \* GET a
    <<<<71,69,84>>, <<98>>>>,             \* GET b
    <<<<68,69,76>>, <<97>>>>,             \* DEL a
    <<<<68,69,76>>, <<98>>>>,             \* DEL b
    <<<<70,76,85,83,72,68,66>>>>,         \* FLUSHDB
    <<<<80,73,78,71>>>>,                  \* PING
    <<<<80,73,78,71>>, <<97>>>>,          \* PING a
    <<<<112,105,110,103>>>>,              \* ping
    <<<<80,105,78,103>>>>,                \* PiNg
    <<<<103,101,116>>, <<97>>>>,          \* get a
    <<<<80,49,78,71>>>>,                  \* P1NG
    <<<<80,73,78,71,83>>>>,               \* PINGS
    <<<<88,89,90>>>>,                     \* XYZ
    <<<<80,73,78,71>>, <<97>>, <<98>>>>,  \* PING a b
    <<<<83,69,84>>, <<97>>>>,             \* SET a
    <<<<71,69,84>>>>,                     \* GET
    <<<<68,69,76>>, <<97>>, <<98>>>>,     \* DEL a b
    <<<<70,76,85,83,72,68,66>>, <<97>>>>, \* FLUSHDB a
    <<<<75,69,89,83>>>>,                  \* KEYS
    <<<<81,85,73,84>>>>,                  \* QUIT
    <<<<81,85,73,84>>, <<97>>>>,          \* QUIT a
    <<<<88,13,121>>>>,                    \* "X\ry"
    <<<<80,10,78,71>>, <<97>>, <<98>>>>   \* "P\nNG" a b
  }

NoCall == [args |-> <<>>, before |-> EmptyKeys, out |-> <<>>, write |-> FALSE, close |-> FALSE]

CmdInit ==
  /\ dkeys = EmptyKeys
  /\ dhist = <<>>
  /\ dlast = NoCall

\* handle_command(&args, &mut store.keys) returned h
Dispatched(args, h) ==
  /\ dkeys' = h.keys
  /\ dhist' = Append(dhist, args)
  /\ dlast' = [args |-> args, before |-> dkeys, out |-> h.out, write |-> h.write,
               close |-> h.close]

Dispatch(args) ==
  /\ Len(dhist) < MaxCmds
  /\ Dispatched(args, handle_command(args, dkeys))
  /\ UNCHANGED <<sysvars, codecvars, lockvars>>

\* ------------------------------------------- the store lock of event_data
\* Batches of commands a worker executes at most
MaxBatches == 2

\* No worker holds the lock
NoOwner == T

\* The `argss` of one call of event_data: the frames decoded from one read
Batches ==
  { << <<<<83,69,84>>, <<97>>, <<49>>>>, <<<<71,69,84>>, <<97>>>> >>,       \* SET a 1, GET a
    << <<<<83,69,84>>, <<97>>, <<50,50>>>>, <<<<71,69,84>>, <<97>>>> >>,    \* SET a 22, GET a
    << <<<<68,69,76>>, <<97>>>>, <<<<71,69,84>>, <<97>>>> >> }              \* DEL a, GET a

LockIdle ==
  /\ lock = NoOwner
  /\ lpc = [w \in Workers |-> "idle"]
  /\ lbatch = [w \in Workers |-> [argss |-> <<>>, keys |-> EmptyKeys]]
  /\ lnext = [w \in Workers |-> 1]
  /\ louts = [w \in Workers |-> <<>>]
  /\ lkeys = EmptyKeys
  /\ ltrace = <<>>
  /\ ldone = [w \in Workers |-> 0]

\* Worker w has decoded argss from a read and, `!close && argss.len() > 0`,
\* calls store.lock()
store_lock_call(w, argss) ==
  /\ lpc[w] = "idle"
  /\ ldone[w] < MaxBatches
  /\ Len(argss) > 0
  /\ lpc' = [lpc EXCEPT ![w] = "wait"]
  /\ lbatch' = [lbatch EXCEPT ![w] = [argss |-> argss, keys |-> EmptyKeys]]
  /\ UNCHANGED <<sysvars, codecvars, cmdvars, lock, lnext, louts, lkeys, ltrace, ldone>>

\* store.lock() returns in a worker that did not wait for the lock to be free
store_lock_unheld(w) ==
  /\ lpc[w] = "wait"
  /\ lock' = w
  /\ lpc' = [lpc EXCEPT ![w] = "held"]
  /\ lbatch' = [lbatch EXCEPT ![w].keys = lkeys]
  /\ lnext' = [lnext EXCEPT ![w] = 1]
  /\ louts' = [louts EXCEPT ![w] = <<>>]
  /\ UNCHANGED <<sysvars, codecvars, cmdvars, lkeys, ltrace, ldone>>

\* `let mut store = store.lock().unwrap()`: the call returns once no other
\* thread holds the Mutex
store_lock(w) ==
  /\ lpc[w] = "wait"
  /\ lock = NoOwner
  /\ lock' = w
  /\ lpc' = [lpc EXCEPT ![w] = "held"]
  /\ lbatch' = [lbatch EXCEPT ![w].keys = lkeys]
  /\ lnext' = [lnext EXCEPT ![w] = 1]
  /\ louts' = [louts EXCEPT ![w] = <<>>]
  /\ UNCHANGED <<sysvars, codecvars, cmdvars, lkeys, ltrace, ldone>>

\* One iteration of `for args in argss` in worker w, h what handle_command
\* returned: `break` once a command asks to close
store_executed(w, h) ==
  /\ lkeys' = h.keys
  /\ louts' = [louts EXCEPT ![w] = Append(@, h.out)]
  /\ ltrace' = Append(ltrace, <<w, ldone[w] + 1>>)
  /\ lnext' = [lnext EXCEPT ![w] = IF h.close THEN Len(lbatch[w].argss) + 1 ELSE @ + 1]

store_execute(w) ==
  /\ lpc[w] = "held"
  /\ lnext[w] <= Len(lbatch[w].argss)
  /\ store_executed(w, handle_command(lbatch[w].argss[lnext[w]], lkeys))
  /\ UNCHANGED <<sysvars, codecvars, cmdvars, lock, lpc, lbatch, ldone>>

\* The end of the `if` block: the MutexGuard `store` is dropped
store_unlock(w) ==
  /\ lpc[w] = "held"
  /\ lnext[w] > Len(lbatch[w].argss)
  /\ lock' = NoOwner
  /\ lpc' = [lpc EXCEPT ![w] = "idle"]
  /\ ldone' = [ldone EXCEPT ![w] = @ + 1]
  /\ UNCHANGED <<sysvars, codecvars, cmdvars, lbatch, lnext, louts, lkeys, ltrace>>

\* ------------------------------------------------------ specifications
\* The reactor: acceptor, workers, clients
Init == SysInit /\ CodecIdle /\ CmdInit /\ LockIdle

Next == SysNext

Spec == Init /\ [][Next]_vars

\* The decoding pipeline fed a stream in every way of splitting it
InitCodec == SysIdle /\ CodecInit /\ CmdInit /\ LockIdle

NextCodec == \E n \in 1..Len(crest) : Feed(n)

SpecCodec == InitCodec /\ [][NextCodec]_vars

\* The dispatcher called with every sequence of up to MaxCmds commands
InitCmd == SysIdle /\ CodecIdle /\ CmdInit /\ LockIdle

NextCmd == \E args \in CmdArgs : Dispatch(args)

SpecCmd == InitCmd /\ [][NextCmd]_vars

\* K clients that each SET and then GET a key of their own
\* The key and the value of client c
pair_key(c) == <<CH_a + c>>
pair_value(c) == <<CH_0 + c>>

\* What client c sends: SET as a multi-bulk frame for odd c and inline for
\* even c, then GET inline.
PairScript(c) ==
  (IF c % 2 = 1
     THEN <<42,51,13,10,36,51,13,10,83,69,84,13,10,36,49,13,10>>   \* "*3\r\n$3\r\nSET\r\n$1\r\n"
            \o pair_key(c)
            \o <<13,10,36,49,13,10>> \o pair_value(c) \o <<CR, LF>>
     ELSE <<83,69,84,32>> \o pair_key(c) \o <<SP>> \o pair_value(c) \o <<LF>>)
  \o <<71,69,84,32>> \o pair_key(c) \o <<LF>>

\* The segments a client's bytes arrive in are cut every SegLen bytes
SegLen == 8

InitPair == SysStart([c \in Ids |-> PairScript(c)]) /\ CodecIdle /\ CmdInit /\ LockIdle

\* The reactor with clients that stay connected and sockets that take every
\* write whole.
NextPair ==
  \/ ClientConnect
  \/ \E c \in Ids : \E n \in {k \in 1..Len(tosend[c]) : k = Len(tosend[c]) \/ k = SegLen} :
       ClientSend(c, n)
  \/ main_loop_accept
  \/ main_loop_insert
  \/ \E w \in Workers : \E c \in Ids : handle_new_connection(w, c)
  \/ \E w \in Workers : \E c \in Ids : child_loop_event(w, c)
  \/ \E w \in Workers : \E n \in {Len(pending_output(w))} \ {0} : drain_write(w, n)
  \/ \E w \in Workers : read_skipped(w)
  \/ \E w \in Workers : read_data(w)

SpecPair == InitPair /\ [][NextPair]_vars

\* The workers executing batches of commands on the shared store
InitLock == SysIdle /\ CodecIdle /\ CmdInit /\ LockIdle

NextLock ==
  \/ \E w \in Workers : \E argss \in Batches : store_lock_call(w, argss)
  \/ \E w \in Workers : store_lock(w)
  \/ \E w \in Workers : store_execute(w)
  \/ \E w \in Workers : store_unlock(w)

SpecLock == InitLock /\ [][NextLock]_vars

\* ============================================================= properties
\* ------------------------------------------------ the reactor (Spec)

\* C1: for every connection, the bytes written to the socket followed by the
\* bytes still waiting in `output` are the replies to its commands,
\* concatenated in the order of the commands; so what has been written is a
\* prefix of that concatenation, and no byte of a later reply is written
\* before the whole of an earlier one.
C1_RepliesWrittenInOrder ==
  \A c \in Ids : sent[c] \o conns[c].output = Concat(replies[c])

\* A partial write has put the whole first reply and a part of the second on
\* the socket.
C1_SecondReplyPartlyWritten ==
  \E c \in Ids :
    /\ Len(replies[c]) >= 2
    /\ Len(sent[c]) > Len(replies[c][1])
    /\ conns[c].output # <<>>

\* C2: in every state where an adopted connection has close = true and an
\* empty `output` and the worker is not in the middle of handling an event
\* for it, the connection is gone from the worker's private map.
C2_ClosedConnDropped ==
  \A w \in Workers : \A c \in streams[w] :
    (conns[c].close /\ conns[c].output = <<>>) => (wpc[w] = "drain" /\ wid[w] = c)

\* C3: whenever an adopted connection has a non-empty `output` and its worker
\* is back in poll, the poller registration has an event for the connection.
C3_PendingOutputHasEvent ==
  \A w \in Workers : \A c \in streams[w] :
    (conns[c].output # <<>> /\ wpc[w] = "poll") => Ready(w, c)

\* The client has sent all it had and waits; the reply sits in `output`, the
\* worker is in poll and no event is due.
C3_ReplyStranded ==
  \E w \in Workers : \E c \in streams[w] :
    /\ tosend[c] = <<>> /\ rcvbuf[c] = <<>> /\ sockst[c] = "open"
    /\ conns[c].output # <<>>
    /\ sent[c] = <<>>
    /\ wpc[w] = "poll"
    /\ ~Ready(w, c)

\* "-ERR Protocol error: <detail>\r\n", one line
IsProtocolErrorReply(r) ==
  /\ Len(r) > Len(ERR_PROTO_PREFIX) + 3
  /\ r[1] = MINUS
  /\ SubSeq(r, 2, Len(ERR_PROTO_PREFIX) + 1) = ERR_PROTO_PREFIX
  /\ SubSeq(r, Len(r) - 1, Len(r)) = <<CR, LF>>
  /\ \A k \in 1..(Len(r) - 2) : r[k] # CR /\ r[k] # LF

\* The step in which the codec reports a protocol error on connection c
C5_ErrorStep(c) ==
  /\ Len(replies'[c]) = Len(replies[c]) + 1
  /\ SubSeq(replies'[c], 1, Len(replies[c])) = replies[c]
  /\ IsProtocolErrorReply(replies'[c][Len(replies'[c])])
  /\ conns'[c].output = conns[c].output \o replies'[c][Len(replies'[c])]
  /\ conns'[c].close
  /\ nexec'[c] = nexec[c]
  /\ store' = store

\* A step taken after the codec reported a protocol error on connection c
C5_LaterStep(c) ==
  /\ perr'[c]
  /\ conns'[c].close
  /\ replies'[c] = replies[c]
  /\ nexec'[c] = nexec[c]
  /\ conns'[c].input = conns[c].input
  /\ Len(rcvbuf'[c]) >= Len(rcvbuf[c])
  /\ (\E w \in Workers : wpc[w] = "drain" /\ wid[w] = c) => store' = store

\* C5: the step in which the codec reports a protocol error on a connection
\* appends exactly one reply "-ERR Protocol error: <detail>\r\n", sets the
\* connection's close flag and executes nothing; every later step leaves the
\* flag set, reads nothing from the connection (its unread bytes only grow),
\* executes none of its commands, adds no reply and, when it is a step of the
\* worker on that connection, leaves the store alone.
C5_ProtocolErrorStops ==
  [][\A c \in Ids : /\ (~perr[c] /\ perr'[c]) => C5_ErrorStep(c)
                    /\ perr[c] => C5_LaterStep(c)]_vars

\* After the protocol error more bytes arrived; the error reply has been
\* written and the worker is back in poll, the bytes unread.
C5_BytesLeftUnreadAfterError ==
  \E c \in Ids :
    /\ perr[c]
    /\ rcvbuf[c] # <<>>
    /\ conns[c].output = <<>>
    /\ sent[c] = Concat(replies[c])
    /\ \A w \in Workers : wpc[w] = "poll"

\* ------------------------------------ the decoding pipeline (SpecCodec)

\* What the chunked feeding gave, against e, one read of the whole stream
EqualsWhole(e) ==
  /\ ~cpanic
  /\ ~e.panic
  /\ cframes = SubSeq(e.argss, 1, e.done)
  /\ creplies = e.outs
  /\ cclose = e.close

\* C4: once a stream has been fed chunk by chunk, to its end or to the read
\* after which no other is made, the frames executed, the replies and the
\* close decision are those of feeding the whole stream in one read.
C4_ChunkedEqualsWhole ==
  (cstream # <<>> /\ (crest = <<>> \/ cclose \/ cpanic))
    => EqualsWhole(event_data(cstream, EmptyKeys))

\* buf opens a quoted argument that nothing closes yet: a quote, then bytes
\* none of which is that quote, a backslash or LF.
UnterminatedQuote(buf) ==
  /\ buf # <<>>
  /\ buf[1] = DQUOTE \/ buf[1] = SQUOTE
  /\ \A k \in 2..Len(buf) : buf[k] # buf[1] /\ buf[k] # BACKSLASH /\ buf[k] # LF

\* t is "incomplete": no error, complete = false, the cursor where it was
IsIncomplete(t) == ~t.panic /\ t.err = <<>> /\ ~t.complete /\ t.ni = 0

\* C6: when the buffer event_data is given ends inside a quoted argument, the
\* codec returns no error and complete = false with the cursor unchanged, the
\* connection is not closed and the buffer is kept for the next read.
C6_UnterminatedQuoteIncomplete ==
  UnterminatedQuote(cbuf) =>
    /\ IsIncomplete(redcon_take_args(cbuf, 0))
    /\ ~cclose
    /\ ~cpanic
    /\ cinput = cbuf

\* t is one complete frame of the single argument arg, the whole of buf
IsFrameOf(t, arg, buf) ==
  ~t.panic /\ t.err = <<>> /\ t.complete /\ t.args = <<arg>> /\ t.ni = Len(buf)

\* C7: for every byte x and either quote, the quoted literal of x (the byte
\* itself, its named escape, the backslash form or \xHH) followed by the line
\* terminator parses to a complete frame whose single argument is [x].
C7_QuotedByteRoundTrip ==
  \A x \in Bytes : \A q \in {DQUOTE, SQUOTE} :
    (cbuf = QuotedLine(q, EscapedByte(x, q)) \/ cbuf = QuotedLine(q, HexEscapedByte(x)))
      => IsFrameOf(redcon_take_args(cbuf, 0), <<x>>, cbuf)

\* ----------------------------------------- the dispatcher (SpecCmd)
Upper(b) == IF b >= CH_a /\ b <= CH_z THEN b - 32 ELSE b

\* arg is name up to ASCII letter case
SameName(arg, name) ==
  /\ Len(arg) = Len(name)
  /\ \A k \in 1..Len(arg) : Upper(arg[k]) = Upper(name[k])

CommandNames == {PING, SET, GET, DEL, FLUSHDB, KEYS, QUIT}

\* The listed arities of the command table
Arities(name) ==
  IF name = PING THEN {1, 2}
  ELSE IF name = SET THEN {3}
  ELSE IF name \in {GET, DEL, KEYS} THEN {2}
  ELSE {1}

UnknownReply(cmd) == MSG_UNKNOWN_PRE \o cmd \o MSG_UNKNOWN_POST

WrongArgsReply(cmd) == MSG_WRONGARGS_PRE \o cmd \o MSG_WRONGARGS_POST

\* C8: args[0] is taken for a command exactly when it is a command name up to
\* ASCII letter case; every other args[0] gets "-ERR unknown command
\* '<cmd>'\r\n", with the store unchanged and the connection left open.
C8_CommandRecognition ==
  dlast.args # <<>> =>
    IF \E name \in CommandNames : SameName(dlast.args[1], name)
      THEN dlast.out # UnknownReply(dlast.args[1])
      ELSE /\ dlast.out = UnknownReply(dlast.args[1])
           /\ dkeys = dlast.before
           /\ ~dlast.close

\* C9: a command of the table called with a number of arguments other than
\* its listed arity gets "-ERR wrong number of arguments for '<cmd>'
\* command\r\n"; the store is unchanged, was_write is false and the
\* connection is not closed.
C9_WrongArity ==
  \A name \in CommandNames :
    (/\ dlast.args # <<>>
     /\ SameName(dlast.args[1], name)
     /\ Len(dlast.args) \notin Arities(name))
      => /\ dlast.out = WrongArgsReply(dlast.args[1])
         /\ dkeys = dlast.before
         /\ ~dlast.write
         /\ ~dlast.close

IsSet(a) == Len(a) = 3 /\ SameName(a[1], SET)
IsGet(a) == Len(a) = 2 /\ SameName(a[1], GET)
IsDel(a) == Len(a) = 2 /\ SameName(a[1], DEL)
IsFlushdb(a) == Len(a) = 1 /\ SameName(a[1], FLUSHDB)

\* The reference map read off a history h of SET, GET, DEL and FLUSHDB: <<v>>
\* for v the value of the most recent SET k not followed by DEL k or
\* FLUSHDB, <<>> when there is none.
RECURSIVE RefValue(_, _)
RefValue(h, k) ==
  IF h = <<>> THEN <<>>
  ELSE IF IsSet(h[Len(h)]) /\ h[Len(h)][2] = k THEN <<h[Len(h)][3]>>
  ELSE IF IsFlushdb(h[Len(h)]) \/ (IsDel(h[Len(h)]) /\ h[Len(h)][2] = k) THEN <<>>
  ELSE RefValue(SubSeq(h, 1, Len(h) - 1), k)

\* bulk(v) for a value of fewer than ten bytes
RefBulk(v) == <<DOLLAR, CH_0 + Len(v), CR, LF>> \o v \o <<CR, LF>>

\* The keys the commands of h name
KeysOf(h) == {h[j][2] : j \in {i \in 1..Len(h) : Len(h[i]) >= 2}}

\* The last call of history h agrees with the reference map
AgreesWithReference(h, before) ==
  /\ IsGet(dlast.args) =>
       /\ dlast.out = IF RefValue(before, dlast.args[2]) = <<>> THEN NULLBULK
                      ELSE RefBulk(RefValue(before, dlast.args[2])[1])
       /\ ~dlast.write
  /\ IsDel(dlast.args) =>
       /\ dlast.out = IF RefValue(before, dlast.args[2]) = <<>> THEN INT0 ELSE INT1
       /\ dlast.write <=> RefValue(before, dlast.args[2]) # <<>>
  /\ \A k \in KeysOf(h) : IF RefValue(h, k) = <<>> THEN k \notin DOMAIN dkeys
                          ELSE k \in DOMAIN dkeys /\ dkeys[k] = RefValue(h, k)[1]
  /\ DOMAIN dkeys \subseteq KeysOf(h)

\* C10: after any sequence of SET, GET, DEL and FLUSHDB the dispatcher agrees
\* with the reference map: GET k replies bulk(v) for v the value of the most
\* recent SET k not followed by DEL k or FLUSHDB and "$-1\r\n" otherwise;
\* DEL k replies ":1\r\n", with was_write, exactly when k was present, else
\* ":0\r\n"; the store holds exactly the reference map.
C10_AgreesWithReferenceMap ==
  (dhist # <<>> /\ \A j \in 1..Len(dhist) :
                     IsSet(dhist[j]) \/ IsGet(dhist[j]) \/ IsDel(dhist[j]) \/ IsFlushdb(dhist[j]))
    => AgreesWithReference(dhist, SubSeq(dhist, 1, Len(dhist) - 1))

\* SET k v, DEL k, GET k: the GET finds nothing.
C10_GetAfterSetAndDel ==
  /\ Len(dhist) = 3
  /\ IsSet(dhist[1]) /\ IsDel(dhist[2]) /\ IsGet(dhist[3])
  /\ dhist[2][2] = dhist[1][2] /\ dhist[3][2] = dhist[1][2]
  /\ dlast.out = NULLBULK

\* ------------------------------------------ K talking clients (SpecPair)
\* s is a prefix of t
IsPrefix(s, t) == Len(s) <= Len(t) /\ s = SubSeq(t, 1, Len(s))

\* Every client has sent all it had and the workers have read it all
AllFinished ==
  /\ nconn = MaxConns
  /\ \A c \in Ids : tosend[c] = <<>> /\ rcvbuf[c] = <<>> /\ conns[c].input = <<>>
  /\ \A w \in Workers : wpc[w] = "poll"

\* C11: with every client c sending SET k_c v_c and then GET k_c, keys
\* pairwise distinct, the replies of client c are never anything but "+OK\r\n"
\* and then bulk(v_c); and when all have finished each client has both
\* replies and the store holds exactly the entries (k_c, v_c).
C11_EachClientSeesItsValue ==
  /\ \A c \in Ids : IsPrefix(replies[c], <<OK, RefBulk(pair_value(c))>>)
  /\ AllFinished =>
       /\ \A c \in Ids : Len(replies[c]) = 2
       /\ DOMAIN store = {pair_key(c) : c \in Ids}
       /\ \A c \in Ids : store[pair_key(c)] = pair_value(c)

\* Client 1's SET, cut inside the frame, was answered by a protocol error and
\* stored nothing
C11_SetAnsweredByError ==
  /\ perr[1]
  /\ replies[1] # <<>> /\ IsProtocolErrorReply(replies[1][1])
  /\ pair_key(1) \notin DOMAIN store

\* ------------------------------------------------------- backpressure
\* A step in which bytes of connection c are read from its socket, or a
\* command of c is executed
ReadsOrExecutes(c) ==
  \/ Len(rcvbuf'[c]) < Len(rcvbuf[c])
  \/ nexec'[c] # nexec[c]
  \/ replies'[c] # replies[c]
  \/ conns'[c].input # conns[c].input

\* C12: a worker reads from a connection, and executes its commands, only
\* when the connection's `output` is empty: while replies are still unwritten
\* nothing more is read or executed for that connection.
C12_ReadsOnlyWhenDrained ==
  [][\A c \in Ids : ReadsOrExecutes(c) => conns[c].output = <<>>]_vars

\* A worker is in the drain loop with replies unwritten while further bytes of
\* the same connection wait in the socket
C12_InputWaitsBehindOutput ==
  \E w \in Workers :
    /\ wpc[w] = "drain"
    /\ conns[wid[w]].output # <<>>
    /\ rcvbuf[wid[w]] # <<>>
    /\ ~conns[wid[w]].close
    /\ sockst[wid[w]] = "open"

\* -------------------------------------- multi-bulk prefixes (SpecCodec)
\* st is one well-formed multi-bulk frame and nothing more
IsMultibulkFrame(st) ==
  /\ st # <<>>
  /\ st[1] = STAR
  /\ LET t == redcon_take_args(st, 0)
     IN ~t.panic /\ t.err = <<>> /\ t.complete /\ t.ni = Len(st)

\* The buffer of the first read is a proper prefix of the multi-bulk frame
\* being sent
ProperPrefixRead ==
  /\ IsMultibulkFrame(cstream)
  /\ cbuf # <<>>
  /\ crest # <<>>
  /\ cstream = cbuf \o crest

\* C13: on every proper prefix of a well-formed multi-bulk frame the codec
\* returns no error, complete = false and the cursor it was given.
C13_MultibulkPrefixIncomplete ==
  ProperPrefixRead => IsIncomplete(redcon_take_args(cbuf, 0))

\* A proper prefix of a well-formed multi-bulk frame is answered with a
\* protocol error and the connection is closed
C13_PrefixReportedAsError ==
  /\ ProperPrefixRead
  /\ redcon_take_args(cbuf, 0).err # <<>>
  /\ cclose
  /\ creplies # <<>> /\ IsProtocolErrorReply(creplies[1])

\* ------------------------------------------ decode progress (SpecCodec)
\* t is a complete frame returned without error
IsComplete(t) == ~t.panic /\ t.err = <<>> /\ t.complete

\* From cursor i on, every complete frame the codec returns moves the cursor
\* forward and not past the end of buf
RECURSIVE ProgressFrom(_, _)
ProgressFrom(buf, i) ==
  IF IsComplete(redcon_take_args(buf, i))
    THEN /\ i < redcon_take_args(buf, i).ni
         /\ redcon_take_args(buf, i).ni <= Len(buf)
         /\ ProgressFrom(buf, redcon_take_args(buf, i).ni)
    ELSE TRUE

\* The cursor after the last complete frame of buf, from cursor i on
RECURSIVE LastCursor(_, _)
LastCursor(buf, i) ==
  IF IsComplete(redcon_take_args(buf, i))
    THEN LastCursor(buf, redcon_take_args(buf, i).ni)
    ELSE i

\* C14: whenever redcon_take_args returns complete = true the cursor has
\* moved forward, ni < new_ni <= len(input), so the decode loop ends; and
\* after event_data `input` is exactly the bytes from the cursor after the
\* last complete frame to the end of the buffer.
C14_DecodeProgress ==
  /\ ProgressFrom(cbuf, 0)
  /\ ~cpanic => cinput = SubSeq(cbuf, LastCursor(cbuf, 0) + 1, Len(cbuf))

\* A read whose buffer held a complete frame and the beginning of the next:
\* the frame was consumed and the partial tail kept
C14_TailKept ==
  /\ ~cpanic
  /\ ~cclose
  /\ cframes # <<>>
  /\ cinput # <<>>
  /\ Len(cinput) < Len(cbuf)

\* ---------------------------------------------------- the drain loop
\* C15: the drain loop stops on a write error other than would-block: once a
\* write has failed (the local `close` is set) the worker is no longer
\* writing that connection's `output`, it goes on to close and remove the
\* connection.
C15_WriteErrorEndsDrain ==
  \A w \in Workers :
    (wpc[w] = "drain" /\ wclose[w]) => conns[wid[w]].output = <<>>

\* A worker in the drain loop of a reset connection: the write has failed,
\* `output` is as long as before, and every further pass of the loop fails the
\* same way
C15_WorkerSpinsOnReset ==
  \E w \in Workers :
    /\ wpc[w] = "drain"
    /\ wclose[w]
    /\ sockst[wid[w]] = "reset"
    /\ conns[wid[w]].output # <<>>
    /\ wid[w] \in streams[w]
    /\ ENABLED drain_error(w)
    /\ ~ENABLED read_skipped(w) /\ ~ENABLED read_no_data(w) /\ ~ENABLED read_data(w)

\* ------------------------------------------------ the store lock (SpecLock)
\* C16: the commands of one batch are executed under one acquisition of the
\* store lock: in the order of all executions those of one batch are
\* adjacent, no command of another worker between them, and the replies of a
\* batch are those of executing it alone on the store as it was when the lock
\* was taken.
C16_BatchUnderOneLock ==
  /\ \A i \in 1..Len(ltrace) : \A k \in i..Len(ltrace) : \A j \in i..k :
       ltrace[i] = ltrace[k] => ltrace[j] = ltrace[i]
  /\ \A w \in Workers :
       lpc[w] = "held" =>
         /\ lock = w
         /\ IsPrefix(louts[w], dispatch_outs(lbatch[w].argss, 1, lbatch[w].keys))

\* A worker between the first and the last command of its batch while
\* another worker, with a batch of its own, waits for the lock
C16_OtherWorkerWaits ==
  \E w \in Workers : \E v \in Workers \ {w} :
    /\ lpc[w] = "held"
    /\ lnext[w] = 2
    /\ Len(lbatch[w].argss) = 2
    /\ lpc[v] = "wait"
    /\ lbatch[v].argss # lbatch[w].argss

\* ------------------------------------------------ connection ownership
\* The connections whose record is in the private map of some worker
Adopted == UNION {streams[w] : w \in Workers}

\* C17: every accepted connection has an id no earlier connection had; its
\* record is in at most one place, the shared handoff map or the private map
\* of worker id % T, never in two; and the acceptor publishes a record once
\* and does not touch the records it has published.
C17_SingleOwner ==
  /\ main_conns \cup Adopted \subseteq 1..id
  /\ apc = "insert" => id \notin main_conns \cup Adopted
  /\ main_conns \cap Adopted = {}
  /\ \A w \in Workers : \A c \in streams[w] : w = c % T
  /\ \A w \in Workers : wpc[w] = "drain" => wid[w] \in streams[w]

\* Two connections handed out: the first adopted by its worker, the second
\* published in the handoff map and not yet adopted
C17_BothPlacesInUse ==
  /\ id = 2
  /\ 1 \in streams[1 % T]
  /\ 2 \in main_conns
  /\ apc = "poll"

\* ------------------------------------------------------- the acceptor
\* C18: on each wake of the listener the acceptor accepts every pending
\* connection: when it is back in poll with no wake pending, no connection is
\* left waiting in the accept queue.
C18_AcceptQueueDrained ==
  (apc = "poll" /\ ~main_ev) => id = nconn

\* The acceptor is blocked in poll, a connection waits in the accept queue,
\* and no further connection will arrive to wake the listener again
C18_ConnectionLeftInQueue ==
  /\ apc = "poll"
  /\ ~main_ev
  /\ id < nconn
  /\ nconn = MaxConns
  /\ ~ENABLED main_loop_accept
  /\ ~ENABLED main_loop_insert
  /\ ~ENABLED ClientConnect

\* ------------------------------- frames before a protocol error (SpecCodec)
\* d, the decode of the buffer of the last read, ended in a protocol error
\* after complete frames none of which is QUIT
FramesThenError(d) ==
  /\ ~d.panic
  /\ d.err # <<>>
  /\ d.argss # <<>>
  /\ \A k \in 1..Len(d.argss) : ~arg_match(d.argss[k][1], QUIT)

\* The frames of d were executed, each with one reply, and the error reply
\* comes after them
FramesRepliedBeforeError(d) ==
  /\ Len(cframes) >= Len(d.argss)
  /\ SubSeq(cframes, Len(cframes) - Len(d.argss) + 1, Len(cframes)) = d.argss
  /\ Len(creplies) = Len(cframes) + 1
  /\ creplies[Len(creplies)] = error_reply(d.err)

\* C19: when one read yields complete non-empty frames, no QUIT among them,
\* and then a frame with a protocol error, the frames are executed and their
\* replies come, in order, before the -ERR Protocol error reply: every
\* complete non-empty frame before the error gets exactly one reply.
C19_FramesBeforeErrorExecuted ==
  (~cpanic /\ FramesThenError(decode_loop(cbuf, 0, <<>>)))
    => FramesRepliedBeforeError(decode_loop(cbuf, 0, <<>>))

\* "PING\n" and a bad multi-bulk count arrived in one read: the only reply
\* is the protocol error, PING was not executed
C19_FrameBeforeErrorDropped ==
  /\ cbuf = cstream
  /\ ~cpanic
  /\ FramesThenError(decode_loop(cbuf, 0, <<>>))
  /\ cframes = <<>>
  /\ Len(creplies) = 1
  /\ IsProtocolErrorReply(creplies[1])
  /\ cclose

\* ------------------------------------------------ error replies (SpecCmd)
\* r is an error reply
IsErrorReply(r) == r # <<>> /\ r[1] = MINUS

\* r is one line: it ends with CR LF and has no control byte before that
IsSingleLine(r) ==
  /\ Len(r) >= 3
  /\ r[Len(r) - 1] = CR
  /\ r[Len(r)] = LF
  /\ \A k \in 2..(Len(r) - 2) : r[k] >= SP

\* C20: every error reply is a single line: no byte below 0x20 between the
\* leading '-' and the final CR LF, whatever args[0] is.
C20_ErrorReplySingleLine ==
  IsErrorReply(dlast.out) => IsSingleLine(dlast.out)

\* A wrong-arity reply that quotes a command name with a line feed in it
C20_ArityReplyWithLineFeed ==
  /\ IsErrorReply(dlast.out)
  /\ IsPrefix(MSG_WRONGARGS_PRE, dlast.out)
  /\ \E k \in 1..Len(dlast.args[1]) : dlast.args[1][k] = LF
  /\ \E k \in 2..(Len(dlast.out) - 2) : dlast.out[k] = LF

\* ------------------------------------- reads inside the buffer (SpecCodec)
\* C21: the codec indexes only positions below len(input): on no buffer,
\* one that ends right after a backslash inside a quoted argument included,
\* does redcon_take_args panic, so no read of event_data ends the worker.
C21_CodecStaysInsideBuffer ==
  /\ ~cpanic
  /\ ~redcon_take_args(cbuf, 0).panic

\* The read ended right after the backslash that follows an opening quote,
\* with more of the line still to come: parse_quoted_arg indexed packet[len]
\* and the worker thread panicked
C21_PanicAfterBackslash ==
  /\ cpanic
  /\ crest # <<>>
  /\ Len(cbuf) >= 2
  /\ cbuf[Len(cbuf)] = BACKSLASH
  /\ cbuf[Len(cbuf) - 1] \in {DQUOTE, SQUOTE}
  /\ parse_quoted_arg(cbuf, Len(cbuf) - 1).panic
  /\ cinput = cbuf
  /\ creplies = <<>>
====
